---- MODULE Spec2Model ----
(***************************************************************************)
(* WordInsertionMaskedLM                                                   *)
(* (textattack/transformations/word_insertions/word_insertion_masked_lm.py)*)
(*                                                                         *)
(* Two specifications over the same variables:                             *)
(*   SpecInit  the constructor __init__, statement by statement.  It ends  *)
(*             with the TypeError of line 40 and nothing follows it: the   *)
(*             caller gets no instance.                                    *)
(*   Spec      the function _get_new_words(self, current_text, index)      *)
(*             applied to its arguments.  The receiver self is an          *)
(*             argument like the other two, drawn from the objects that    *)
(*             carry the attributes the function reads; it is not the      *)
(*             product of a construction.                                  *)
(*                                                                         *)
(* Probabilities are integers in 0..MaxProb (an order-preserving scale of  *)
(* the softmax output); min_confidence is on the same scale.  Token ids    *)
(* are 0-based as in the tokenizer, sequences are 1-based as in TLA+.      *)
(***************************************************************************)
EXTENDS Integers, Sequences, FiniteSets, TLC

\* ------------------------------------------------------------------ bounds
MaxLength == 4       \* max_length ranges over 2..MaxLength
MaxCandidates == 2   \* max_candidates ranges over 0..MaxCandidates
MaxProb == 2         \* probabilities and min_confidence range over 0..MaxProb
MaxWords == 2        \* texts have 1..MaxWords words

\* --------------------------------------------------------------- utilities
Range(s) == {s[i] : i \in DOMAIN s}

Min(a, b) == IF a <= b THEN a ELSE b

\* Python's list.index where x occurs in s: the 0-based position of the first
\* occurrence.  (Where x does not occur the call raises ValueError.)
list_index(s, x) ==
    (CHOOSE i \in DOMAIN s : s[i] = x /\ \A j \in 1..(i - 1) : s[j] # x) - 1

\* Python's setattr on an instance dictionary.
SetAttr(obj, key, value) == (key :> value) @@ obj

\* --------------------------------------------------- tokenizer vocabulary
\* Entries of the vocabulary the oracle's distribution is drawn over: ids
\* 0..Len(Vocab)-1.  A word, a subword piece, a non-word and a word.
Vocab == <<"good", "##ly", ".", "bad">>

SpecialTokens == <<"[PAD]", "[CLS]", "[SEP]", "[MASK]">>

\* The words input texts are made of (the spec's example sentence).
Sentence == <<"the", "movie", "was", "great">>

AllTokens == Vocab \o SpecialTokens \o Sentence

VocabIds == 0..(Len(Vocab) - 1)

convert_ids_to_tokens(id) == AllTokens[id + 1]

convert_tokens_to_ids(token) ==
    (CHOOSE i \in DOMAIN AllTokens : AllTokens[i] = token) - 1

mask_token == "[MASK]"

mask_token_id == convert_tokens_to_ids(mask_token)

\* utils.is_one_word: the token is exactly one word.
is_one_word(token) == token \notin {".", "[PAD]"}

\* utils.check_if_subword: the token is a subword piece of the model's
\* vocabulary.
check_if_subword(model_name, token) == token \in {"##ly"}

\* ------------------------------------------------------------ AttackedText
\* An AttackedText is modelled by its word sequence.  Indices are 0-based.
\* insert_text_before_word_index returns a new text and leaves words alone.
insert_text_before_word_index(words, i, text) ==
    SubSeq(words, 1, i) \o <<text>> \o SubSeq(words, i + 1, Len(words))

Texts == {SubSeq(Sentence, 1, n) : n \in 1..MaxWords}

\* ------------------------------------------------------------------- state
VARIABLES
    self,                 \* the instance's attributes (name -> value)
    pc,                   \* position in __init__ or in _get_new_words
    exception,            \* "none", or the exception that escaped
    arg_model,            \* __init__'s masked_language_model argument
    model_loads,          \* AutoModelForMaskedLM.from_pretrained calls made
    current_text,         \* _get_new_words' AttackedText argument (its words)
    index,                \* _get_new_words' index argument
    masked_attacked_text, \* the derived text carrying the mask
    ids,                  \* inputs["input_ids"].tolist()[0]
    masked_index,         \* position of the mask in ids
    oracle_calls,         \* calls of self._language_model made by this call
    mask_token_probs,     \* softmax of the logits at the mask
    ranked_indices,       \* torch.argsort(mask_token_probs)
    pos,                  \* entries of ranked_indices the loop has consumed
    replacement_words,    \* the list being built
    result                \* the returned list

vars == <<self, pc, exception, arg_model, model_loads, current_text, index,
          masked_attacked_text, ids, masked_index, oracle_calls,
          mask_token_probs, ranked_indices, pos, replacement_words, result>>

ctor_vars == <<arg_model, model_loads>>

call_vars == <<current_text, index, masked_attacked_text, ids, masked_index,
               oracle_calls, mask_token_probs, ranked_indices, pos,
               replacement_words, result>>

\* -------------------------------------------------------------- __init__
\* Python values that can be passed as masked_language_model: a str (the
\* name of a pretrained model) or a model object.  `origin` tells where a
\* model object comes from: the caller, or from_pretrained of a name.
ModelNames ==
    {[class |-> "str", origin |-> n] : n \in {"bert-base-uncased", "roberta-base"}}

ModelObjects == {[class |-> "BertForMaskedLM", origin |-> "caller"]}

\* AutoModelForMaskedLM.from_pretrained(name): a fresh model object.
LoadedModel(name) ==
    [class |-> IF name.origin = "roberta-base" THEN "RobertaForMaskedLM"
               ELSE "BertForMaskedLM",
     origin |-> name.origin]

NoModel == [class |-> "NoneType", origin |-> "none"]

LoadedTokenizer == [mask_token |-> mask_token, mask_token_id |-> mask_token_id]

\* The classes a class inherits from, itself included.
Bases(class) ==
    IF class \in {"BertForMaskedLM", "RobertaForMaskedLM"}
    THEN {class, "PreTrainedModel", "Module", "object"}
    ELSE {class, "object"}

\* Python's builtin isinstance, called with the argument tuple `args`: it
\* takes exactly two arguments and raises TypeError otherwise; with two, it
\* tells whether the class of the first is the second or inherits from it.
isinstance(args) ==
    IF Len(args) # 2 THEN "TypeError"
    ELSE IF args[2] \in Bases(args[1].class) THEN "True"
    ELSE "False"

CallDefaults ==
    /\ current_text = <<>>
    /\ index = 0
    /\ masked_attacked_text = <<>>
    /\ ids = <<>>
    /\ masked_index = -1
    /\ oracle_calls = 0
    /\ mask_token_probs = <<>>
    /\ ranked_indices = <<>>
    /\ pos = 0
    /\ replacement_words = <<>>
    /\ result = <<>>

\* Before construction: the instance has no attribute yet.
InitNew ==
    /\ self = <<>>
    /\ pc = "new"
    /\ exception = "none"
    /\ arg_model = NoModel
    /\ model_loads = 0
    /\ CallDefaults

\* Lines 24-35: bind the arguments, set the three configuration attributes.
InitConfig ==
    /\ pc = "new"
    /\ \E m \in ModelNames \cup ModelObjects,
          ml \in 2..MaxLength,
          mc \in 0..MaxCandidates,
          conf \in 0..MaxProb :
          /\ arg_model' = m
          /\ self' = SetAttr(SetAttr(SetAttr(self, "max_length", ml),
                                     "max_candidates", mc),
                             "min_confidence", conf)
    /\ pc' = "init_tokenizer"
    /\ UNCHANGED <<exception, model_loads, call_vars>>

\* Lines 37-39: AutoTokenizer.from_pretrained(masked_language_model).  Given
\* a name it loads the tokenizer; what the library does with a model object
\* is not decided by this code, so both outcomes are possible.
InitTokenizer ==
    /\ pc = "init_tokenizer"
    /\ \E loaded \in IF arg_model \in ModelNames THEN {TRUE} ELSE BOOLEAN :
          IF loaded
          THEN /\ self' = SetAttr(self, "_lm_tokenizer", LoadedTokenizer)
               /\ pc' = "init_model"
               /\ UNCHANGED exception
          ELSE /\ pc' = "init_raised"
               /\ exception' = "OSError"
               /\ UNCHANGED self
    /\ UNCHANGED <<ctor_vars, call_vars>>

\* Lines 40-48: choose between loading a model and taking the one given.
InitModel ==
    /\ pc = "init_model"
    /\ LET test == isinstance(<<arg_model>>) IN
       IF test = "TypeError"
       THEN /\ pc' = "init_raised"
            /\ exception' = "TypeError"
            /\ UNCHANGED <<self, model_loads>>
       ELSE LET lm == IF test = "True" THEN LoadedModel(arg_model)
                      ELSE arg_model IN
            /\ model_loads' = IF test = "True" THEN model_loads + 1
                               ELSE model_loads
            /\ self' = SetAttr(SetAttr(self, "_language_model", lm),
                               "masked_lm_name", lm.class)
            /\ pc' = "init_done"
            /\ UNCHANGED exception
    /\ UNCHANGED <<arg_model, call_vars>>

NextInit == InitConfig \/ InitTokenizer \/ InitModel

SpecInit == InitNew /\ [][NextInit]_vars

\* --------------------------------------------------------- _encode_text
\* Lines 57-64: encode_plus with truncation=True and padding="max_length".
\* One id per word; the words are cut to make room for [CLS] and [SEP] and
\* the ids are padded to max_length.
Repeat(x, n) == [i \in 1..n |-> x]

_encode_text(words, max_length) ==
    LET body == [i \in DOMAIN words |-> convert_tokens_to_ids(words[i])]
        keep == Min(Len(body), max_length - 2)
    IN  <<convert_tokens_to_ids("[CLS]")>>
        \o SubSeq(body, 1, keep)
        \o <<convert_tokens_to_ids("[SEP]")>>
        \o Repeat(convert_tokens_to_ids("[PAD]"), max_length - keep - 2)

\* ------------------------------------------------------- _get_new_words
\* Line 91: torch.argsort(probs), ascending by default; the order of equal
\* entries is not fixed, so every ascending order is a possible outcome.
argsort(probs) ==
    {r \in [1..Cardinality(DOMAIN probs) -> DOMAIN probs] :
        /\ \A i, j \in DOMAIN r : i # j => r[i] # r[j]
        /\ \A i, j \in DOMAIN r : i < j => probs[r[i]] <= probs[r[j]]}

\* Variant of IsWholeWord that lets subword pieces through.
IsWholeWordSubwordsKept(model_name, token) == is_one_word(token)

\* Line 97: the token is a single word and no subword piece.
IsWholeWord(model_name, token) ==
    is_one_word(token) /\ ~check_if_subword(model_name, token)

\* Variant of PassesConfidence that admits a probability equal to the bound.
PassesConfidenceInclusive(prob, min_confidence) == prob >= min_confidence

\* Line 98: the confidence test.
PassesConfidence(prob, min_confidence) == prob > min_confidence

\* Line 101: the loop's exit test, made after the append.
ReachedMax(words, max_candidates) == Len(words) >= max_candidates

\* Line 66, parameter self: an object with the attributes the function
\* reads (lines 59, 75, 82, 87, 97, 98, 101).
Receivers ==
    {[max_length |-> ml,
      max_candidates |-> mc,
      min_confidence |-> conf,
      _lm_tokenizer |-> LoadedTokenizer,
      _language_model |-> lm,
      masked_lm_name |-> lm.class] :
        ml \in 2..MaxLength, mc \in 0..MaxCandidates, conf \in 0..MaxProb,
        lm \in ModelObjects}

\* Entry of _get_new_words: the receiver is given, no construction has run.
Init ==
    /\ self \in Receivers
    /\ pc = "idle"
    /\ exception = "none"
    /\ arg_model = NoModel
    /\ model_loads = 0
    /\ CallDefaults

\* Line 66: a call binds current_text and index; the locals start afresh.
Call ==
    /\ pc \in {"idle", "returned"}
    /\ \E text \in Texts :
          \E i \in 0..(Len(text) - 1) :
             /\ current_text' = text
             /\ index' = i
    /\ masked_attacked_text' = <<>>
    /\ ids' = <<>>
    /\ masked_index' = -1
    /\ oracle_calls' = 0
    /\ mask_token_probs' = <<>>
    /\ ranked_indices' = <<>>
    /\ pos' = 0
    /\ replacement_words' = <<>>
    /\ result' = <<>>
    /\ pc' = "called"
    /\ UNCHANGED <<self, exception, ctor_vars>>

\* Variant of InsertMask that writes the mask into current_text itself.
InsertMaskInPlace ==
    /\ pc = "called"
    /\ current_text' =
          insert_text_before_word_index(current_text, index,
                                        self._lm_tokenizer.mask_token)
    /\ masked_attacked_text' = current_text'
    /\ pc' = "masked"
    /\ UNCHANGED <<self, exception, ctor_vars, index, ids,
                   masked_index, oracle_calls, mask_token_probs,
                   ranked_indices, pos, replacement_words, result>>

\* Lines 74-76: derive the text with the mask before word `index`.
InsertMask ==
    /\ pc = "called"
    /\ masked_attacked_text' =
          insert_text_before_word_index(current_text, index,
                                        self._lm_tokenizer.mask_token)
    /\ pc' = "masked"
    /\ UNCHANGED <<self, exception, ctor_vars, current_text, index, ids,
                   masked_index, oracle_calls, mask_token_probs,
                   ranked_indices, pos, replacement_words, result>>

\* Lines 77-78: encode the masked text.
Encode ==
    /\ pc = "masked"
    /\ ids' = _encode_text(masked_attacked_text, self.max_length)
    /\ pc' = "encoded"
    /\ UNCHANGED <<self, exception, ctor_vars, current_text, index,
                   masked_attacked_text, masked_index, oracle_calls,
                   mask_token_probs, ranked_indices, pos, replacement_words,
                   result>>

\* Variant of FindMask without the try/except: ValueError escapes.
FindMaskUncaught ==
    /\ pc = "encoded"
    /\ IF self._lm_tokenizer.mask_token_id \in Range(ids)
       THEN /\ masked_index' = list_index(ids, self._lm_tokenizer.mask_token_id)
            /\ pc' = "found"
            /\ UNCHANGED exception
       ELSE /\ exception' = "ValueError"
            /\ pc' = "raised"
            /\ UNCHANGED masked_index
    /\ UNCHANGED <<self, ctor_vars, current_text, index, result,
                   masked_attacked_text, ids, oracle_calls, mask_token_probs,
                   ranked_indices, pos, replacement_words>>

\* Variant of FindMask whose except clause goes on with the last position
\* instead of returning.
FindMaskFallsThrough ==
    /\ pc = "encoded"
    /\ masked_index' =
          IF self._lm_tokenizer.mask_token_id \in Range(ids)
          THEN list_index(ids, self._lm_tokenizer.mask_token_id)
          ELSE Len(ids) - 1
    /\ pc' = "found"
    /\ UNCHANGED <<self, exception, ctor_vars, current_text, index, result,
                   masked_attacked_text, ids, oracle_calls, mask_token_probs,
                   ranked_indices, pos, replacement_words>>

\* Lines 80-84: look the mask up; ValueError is caught and [] returned.
FindMask ==
    /\ pc = "encoded"
    /\ IF self._lm_tokenizer.mask_token_id \in Range(ids)
       THEN /\ masked_index' = list_index(ids, self._lm_tokenizer.mask_token_id)
            /\ pc' = "found"
            /\ UNCHANGED result
       ELSE /\ result' = <<>>
            /\ pc' = "returned"
            /\ UNCHANGED masked_index
    /\ UNCHANGED <<self, exception, ctor_vars, current_text, index,
                   masked_attacked_text, ids, oracle_calls, mask_token_probs,
                   ranked_indices, pos, replacement_words>>

\* Lines 86-91: one call of the language model, softmax at the mask,
\* argsort.  The oracle may answer with any distribution.
Predict ==
    /\ pc = "found"
    /\ oracle_calls' = oracle_calls + 1
    /\ \E probs \in [VocabIds -> 0..MaxProb] :
          /\ mask_token_probs' = probs
          /\ ranked_indices' \in argsort(probs)
    /\ replacement_words' = <<>>
    /\ pos' = 0
    /\ pc' = "loop"
    /\ UNCHANGED <<self, exception, ctor_vars, current_text, index,
                   masked_attacked_text, ids, masked_index, result>>

\* Lines 94-102: one iteration of the loop over ranked_indices.
LoopStep ==
    /\ pc = "loop"
    /\ pos < Len(ranked_indices)
    /\ LET _id == ranked_indices[pos + 1]
           token == convert_ids_to_tokens(_id)
           words == IF /\ IsWholeWord(self.masked_lm_name, token)
                       /\ PassesConfidence(mask_token_probs[_id],
                                           self.min_confidence)
                    THEN Append(replacement_words, token)
                    ELSE replacement_words
       IN  /\ replacement_words' = words
           /\ pos' = pos + 1
           /\ pc' = IF ReachedMax(words, self.max_candidates)
                    THEN "break" ELSE "loop"
    /\ UNCHANGED <<self, exception, ctor_vars, current_text, index,
                   masked_attacked_text, ids, masked_index, oracle_calls,
                   mask_token_probs, ranked_indices, result>>

\* Line 104: return the list, after a break or at the end of the ranking.
Return ==
    /\ \/ pc = "break"
       \/ pc = "loop" /\ pos = Len(ranked_indices)
    /\ result' = replacement_words
    /\ pc' = "returned"
    /\ UNCHANGED <<self, exception, ctor_vars, current_text, index,
                   masked_attacked_text, ids, masked_index, oracle_calls,
                   mask_token_probs, ranked_indices, pos, replacement_words>>

Next == Call \/ InsertMask \/ Encode \/ FindMask \/ Predict \/ LoopStep \/ Return

Spec == Init /\ [][Next]_vars

\* Lines 106-107.
extra_repr_keys ==
    <<"masked_lm_name ", "max_length", "max_candidates", "min_confidence">>

\* ------------------------------------------------------------ properties
MaskPresent == self._lm_tokenizer.mask_token_id \in Range(ids)

\* The call has got past the search for the mask.
PastFindMask == pc \in {"found", "loop", "break", "returned", "raised"}

\* A call of _get_new_words is under way.
InCall == pc \in {"called", "masked", "encoded", "found", "loop", "break"}

\* The masked-position probability of a returned token.
ProbOf(token) == mask_token_probs[convert_tokens_to_ids(token)]

\* Ids of the tokens that are whole words with probability above the bound.
Eligible ==
    {id \in DOMAIN mask_token_probs :
        /\ is_one_word(convert_ids_to_tokens(id))
        /\ ~check_if_subword(self.masked_lm_name, convert_ids_to_tokens(id))
        /\ mask_token_probs[id] > self.min_confidence}

\* C1: when the mask token id is absent from the encoded ids, the call
\* returns the empty list and no exception escapes.
C1_TruncatedMaskReturnsEmpty ==
    (PastFindMask /\ ~MaskPresent) =>
        (pc = "returned" /\ result = <<>> /\ exception = "none")

C1_Witness ==
    /\ pc = "returned"
    /\ ~MaskPresent
    /\ mask_token \in Range(masked_attacked_text)
    /\ Len(ids) = self.max_length
    /\ index > 0

\* C2: the returned list has at most max_candidates entries, for every
\* max_candidates >= 0.
C2_AtMostMaxCandidates ==
    pc = "returned" => Len(result) <= self.max_candidates

\* C3: the returned list is ordered by descending probability.
C3_DescendingConfidence ==
    pc = "returned" =>
        \A i, j \in DOMAIN result :
            i < j => ProbOf(result[i]) >= ProbOf(result[j])

\* C4: when the oracle was asked, the returned list consists of exactly the
\* min(max_candidates, E) eligible tokens of highest probability.
C4_BestRankedEligible ==
    (pc = "returned" /\ oracle_calls = 1) =>
        LET R == {convert_tokens_to_ids(result[i]) : i \in DOMAIN result} IN
        /\ Len(result) = Min(self.max_candidates, Cardinality(Eligible))
        /\ Cardinality(R) = Len(result)
        /\ R \subseteq Eligible
        /\ \A e \in Eligible \ R :
              \A r \in R : mask_token_probs[e] <= mask_token_probs[r]

\* C5: every entry collected or returned has a probability strictly above
\* min_confidence.
C5_AboveMinConfidence ==
    /\ \A i \in DOMAIN result : ProbOf(result[i]) > self.min_confidence
    /\ \A i \in DOMAIN replacement_words :
          ProbOf(replacement_words[i]) > self.min_confidence

\* A token at exactly min_confidence was ranked before the end of the loop
\* and left out, while another token was returned.
C5_Witness ==
    /\ pc = "returned"
    /\ result # <<>>
    /\ \E n \in 1..pos :
          LET token == convert_ids_to_tokens(ranked_indices[n]) IN
          /\ is_one_word(token)
          /\ ~check_if_subword(self.masked_lm_name, token)
          /\ mask_token_probs[ranked_indices[n]] = self.min_confidence
          /\ token \notin Range(result)

\* C6 (for the runs in which the tokenizer loaded): the constructor
\* completes; given a name the model is the one loaded from it, given a model
\* object the model is that object and nothing is loaded.
C6_ConstructorCompletes ==
    (pc \in {"init_done", "init_raised"} /\ "_lm_tokenizer" \in DOMAIN self) =>
        /\ pc = "init_done"
        /\ exception = "none"
        /\ IF arg_model \in ModelNames
           THEN self._language_model = LoadedModel(arg_model)
           ELSE self._language_model = arg_model /\ model_loads = 0

\* C7: every entry collected or returned is one word and no subword piece.
C7_OnlyWholeWords ==
    \A token \in Range(result) \cup Range(replacement_words) :
        is_one_word(token) /\ ~check_if_subword(self.masked_lm_name, token)

\* A subword piece and a non-word, both above min_confidence, were ranked
\* and left out, while another token was returned.
C7_Witness ==
    /\ pc = "returned"
    /\ result # <<>>
    /\ \E m, n \in 1..pos :
          /\ check_if_subword(self.masked_lm_name,
                              convert_ids_to_tokens(ranked_indices[m]))
          /\ ~is_one_word(convert_ids_to_tokens(ranked_indices[n]))
          /\ mask_token_probs[ranked_indices[m]] > self.min_confidence
          /\ mask_token_probs[ranked_indices[n]] > self.min_confidence

\* C8: a call asks the oracle at most once and only with the mask found in
\* the ids; a finished call has asked once if the mask is present and not at
\* all if it is absent.
C8_OracleOnceAfterMaskFound ==
    /\ oracle_calls <= 1
    /\ oracle_calls = 1 =>
          /\ MaskPresent
          /\ masked_index >= 0
          /\ ids[masked_index + 1] = self._lm_tokenizer.mask_token_id
    /\ pc = "returned" => oracle_calls = (IF MaskPresent THEN 1 ELSE 0)

C8_Witness ==
    /\ pc = "returned"
    /\ oracle_calls = 1
    /\ masked_index > 1
    /\ result # <<>>

\* C9: no step of a call changes the words of current_text or the
\* configuration, and the mask goes into the derived text only.
C9_TextAndConfigUnchanged ==
    [][/\ (pc \in {"idle", "returned"} \/ InCall) => self' = self
       /\ InCall => current_text' = current_text
       /\ pc' \in {"masked", "encoded", "found", "loop", "break", "returned"} =>
             /\ mask_token \notin Range(current_text')
             /\ masked_attacked_text' # current_text']_vars

C9_Witness ==
    /\ pc = "returned"
    /\ result # <<>>
    /\ index > 0
    /\ Len(masked_attacked_text) = Len(current_text) + 1
    /\ masked_attacked_text[index + 1] = mask_token

\* C10 (for the runs in which the tokenizer loaded): once the constructor
\* has ended, every key of extra_repr_keys names an attribute it has set.
C10_ReprKeysAreAttributes ==
    (pc \in {"init_done", "init_raised"} /\ "_lm_tokenizer" \in DOMAIN self) =>
        \A i \in DOMAIN extra_repr_keys : extra_repr_keys[i] \in DOMAIN self

====
